---- MODULE Spec2Model ----
(***************************************************************************)
(* Keycloak Terraform Resource Analyzer (keycloak_analyzer.py).            *)
(*                                                                         *)
(* Python strings that the program searches with the `in` operator are     *)
(* modelled as sequences of one-character strings, so that substring       *)
(* containment is computed rather than assumed.  Python dicts are modelled *)
(* as functions whose DOMAIN is the set of keys present, so that a missing *)
(* key and dict.get's default are visible.                                 *)
(***************************************************************************)
EXTENDS Integers, Sequences, FiniteSets, TLC

(***************************************************************************)
(* Bounds of the model.                                                    *)
(***************************************************************************)
\* longest resource list handed to the classifier / the user analyzer
MaxLen == 2
\* longest resource list of a state snapshot in a whole program run
MaxSnapshot == 1

(***************************************************************************)
(* Strings as character sequences.                                         *)
(***************************************************************************)
\* the default of resource.get('type', '')
EmptyStr == <<>>

KW_realm == <<"r","e","a","l","m">>
KW_user == <<"u","s","e","r">>
KW_client == <<"c","l","i","e","n","t">>
KW_role == <<"r","o","l","e">>
KW_group == <<"g","r","o","u","p">>
KW_identity_provider == <<"i","d","e","n","t","i","t","y","_","p","r","o","v","i","d","e","r">>
KW_idp == <<"i","d","p">>
KW_authentication == <<"a","u","t","h","e","n","t","i","c","a","t","i","o","n">>
KW_flow == <<"f","l","o","w">>
KW_scope == <<"s","c","o","p","e">>
KW_mapper == <<"m","a","p","p","e","r">>

Ty_keycloak_realm == <<"k","e","y","c","l","o","a","k","_","r","e","a","l","m">>
Ty_keycloak_user == <<"k","e","y","c","l","o","a","k","_","u","s","e","r">>
Ty_keycloak_realm_user_profile == <<"k","e","y","c","l","o","a","k","_","r","e","a","l","m","_","u","s","e","r","_","p","r","o","f","i","l","e">>
Ty_keycloak_user_federation_mapper == <<"k","e","y","c","l","o","a","k","_","u","s","e","r","_","f","e","d","e","r","a","t","i","o","n","_","m","a","p","p","e","r">>
Ty_keycloak_openid_client == <<"k","e","y","c","l","o","a","k","_","o","p","e","n","i","d","_","c","l","i","e","n","t">>
Ty_keycloak_openid_client_scope == <<"k","e","y","c","l","o","a","k","_","o","p","e","n","i","d","_","c","l","i","e","n","t","_","s","c","o","p","e">>
Ty_keycloak_role == <<"k","e","y","c","l","o","a","k","_","r","o","l","e">>
Ty_keycloak_group_roles == <<"k","e","y","c","l","o","a","k","_","g","r","o","u","p","_","r","o","l","e","s">>
Ty_keycloak_group == <<"k","e","y","c","l","o","a","k","_","g","r","o","u","p">>
Ty_keycloak_oidc_identity_provider == <<"k","e","y","c","l","o","a","k","_","o","i","d","c","_","i","d","e","n","t","i","t","y","_","p","r","o","v","i","d","e","r">>
Ty_keycloak_saml_idp == <<"k","e","y","c","l","o","a","k","_","s","a","m","l","_","i","d","p">>
Ty_keycloak_authentication_execution == <<"k","e","y","c","l","o","a","k","_","a","u","t","h","e","n","t","i","c","a","t","i","o","n","_","e","x","e","c","u","t","i","o","n">>
Ty_keycloak_required_flow == <<"k","e","y","c","l","o","a","k","_","r","e","q","u","i","r","e","d","_","f","l","o","w">>
Ty_keycloak_default_scope == <<"k","e","y","c","l","o","a","k","_","d","e","f","a","u","l","t","_","s","c","o","p","e">>
Ty_keycloak_generic_protocol_mapper == <<"k","e","y","c","l","o","a","k","_","g","e","n","e","r","i","c","_","p","r","o","t","o","c","o","l","_","m","a","p","p","e","r">>
Ty_keycloak_identity_provider_mapper == <<"k","e","y","c","l","o","a","k","_","i","d","e","n","t","i","t","y","_","p","r","o","v","i","d","e","r","_","m","a","p","p","e","r">>
Ty_null_resource == <<"n","u","l","l","_","r","e","s","o","u","r","c","e">>

(***************************************************************************)
(* Python helpers.                                                         *)
(***************************************************************************)
\* needle in hay, for a non-empty needle
Contains(needle, hay) ==
    \E i \in 1..(Len(hay) - Len(needle) + 1) :
        SubSeq(hay, i, i + Len(needle) - 1) = needle

\* {}
EmptyDict == <<>>

\* d.get(k, default)
Get(d, k, default) == IF k \in DOMAIN d THEN d[k] ELSE default

\* an exception propagating out of a call
Raise(e) == [exception |-> e]

IsRaise(r) == "exception" \in DOMAIN r

\* all sequences over S of length at most n
BoundedSeq(S, n) == UNION {[1..k -> S] : k \in 0..n}

RECURSIVE SumOver(_, _)
SumOver(f, D) ==
    IF D = {} THEN 0
    ELSE LET k == CHOOSE x \in D : TRUE IN f[k] + SumOver(f, D \ {k})

(***************************************************************************)
(* categorize_keycloak_resources                                           *)
(***************************************************************************)
\* the keys of the categories dict, in insertion order
Categories ==
    <<"realms", "users", "clients", "roles", "groups", "identity_providers",
      "authentication_flows", "scopes", "mappers", "other">>

CategoryNames == {Categories[i] : i \in 1..Len(Categories)}

\* the if/elif chain, had 'mapper' been tested before 'user'
CategoryOfMapperFirst(resource) ==
    LET resource_type == Get(resource, "type", EmptyStr) IN
    IF Contains(KW_realm, resource_type) /\ resource_type # Ty_keycloak_user
    THEN "realms"
    ELSE IF Contains(KW_mapper, resource_type) THEN "mappers"
    ELSE IF Contains(KW_user, resource_type) THEN "users"
    ELSE IF Contains(KW_client, resource_type) THEN "clients"
    ELSE IF Contains(KW_role, resource_type) THEN "roles"
    ELSE IF Contains(KW_group, resource_type) THEN "groups"
    ELSE IF Contains(KW_identity_provider, resource_type) \/ Contains(KW_idp, resource_type)
    THEN "identity_providers"
    ELSE IF Contains(KW_authentication, resource_type) \/ Contains(KW_flow, resource_type)
    THEN "authentication_flows"
    ELSE IF Contains(KW_scope, resource_type) THEN "scopes"
    ELSE "other"

\* the if/elif chain of the loop body
CategoryOf(resource) ==
    LET resource_type == Get(resource, "type", EmptyStr) IN
    IF Contains(KW_realm, resource_type) /\ resource_type # Ty_keycloak_user
    THEN "realms"
    ELSE IF Contains(KW_user, resource_type) THEN "users"
    ELSE IF Contains(KW_client, resource_type) THEN "clients"
    ELSE IF Contains(KW_role, resource_type) THEN "roles"
    ELSE IF Contains(KW_group, resource_type) THEN "groups"
    ELSE IF Contains(KW_identity_provider, resource_type) \/ Contains(KW_idp, resource_type)
    THEN "identity_providers"
    ELSE IF Contains(KW_authentication, resource_type) \/ Contains(KW_flow, resource_type)
    THEN "authentication_flows"
    ELSE IF Contains(KW_scope, resource_type) THEN "scopes"
    ELSE IF Contains(KW_mapper, resource_type) THEN "mappers"
    ELSE "other"

\* the loop, had the chain ended without its else branch
RECURSIVE CategorizeLoopNoElse(_, _, _)
CategorizeLoopNoElse(resources, i, categories) ==
    IF i > Len(resources) THEN categories
    ELSE LET c == CategoryOf(resources[i]) IN
         CategorizeLoopNoElse(resources, i + 1,
            IF c = "other" THEN categories
            ELSE [categories EXCEPT ![c] = Append(@, resources[i])])

RECURSIVE CategorizeLoop(_, _, _)
CategorizeLoop(resources, i, categories) ==
    IF i > Len(resources) THEN categories
    ELSE LET c == CategoryOf(resources[i]) IN
         CategorizeLoop(resources, i + 1,
                        [categories EXCEPT ![c] = Append(@, resources[i])])

categorize_keycloak_resources(resources) ==
    CategorizeLoop(resources, 1, [c \in CategoryNames |-> <<>>])

(***************************************************************************)
(* analyze_user_security                                                   *)
(***************************************************************************)
\* values.get('initial_password', {}).get('temporary', False) raises
\* AttributeError when the value under the key is not a mapping
TemporaryRaises(values) ==
    /\ "initial_password" \in DOMAIN values
    /\ values["initial_password"].kind # "object"

TemporaryOf(values) ==
    Get(Get(values, "initial_password", [kind |-> "object", fields |-> EmptyDict]).fields,
        "temporary", FALSE)

\* the loop, had a missing 'enabled' key defaulted to False
RECURSIVE AnalyzeLoopEnabledDefaultFalse(_, _, _)
AnalyzeLoopEnabledDefaultFalse(users, i, sa) ==
    IF i > Len(users) THEN sa
    ELSE
      LET values == Get(users[i], "values", EmptyDict)
          has_pw == "initial_password" \in DOMAIN values
      IN
      IF has_pw /\ TemporaryRaises(values) THEN Raise("AttributeError")
      ELSE
        LET temp == has_pw /\ TemporaryOf(values)
            en == Get(values, "enabled", FALSE)
            user_info ==
              [username |-> Get(values, "username", "unknown"),
               email |-> Get(values, "email", ""),
               enabled |-> en,
               has_password |-> has_pw,
               temporary_password |-> temp,
               requires_password_change |-> FALSE]
        IN
        AnalyzeLoopEnabledDefaultFalse(users, i + 1,
          [sa EXCEPT
             !.users_with_passwords = IF has_pw THEN @ + 1 ELSE @,
             !.temporary_passwords = IF temp THEN @ + 1 ELSE @,
             !.users_without_passwords = IF has_pw THEN @ ELSE @ + 1,
             !.enabled_users = IF en THEN @ + 1 ELSE @,
             !.disabled_users = IF en THEN @ ELSE @ + 1,
             !.user_details = Append(@, user_info)])

RECURSIVE AnalyzeLoop(_, _, _)
AnalyzeLoop(users, i, sa) ==
    IF i > Len(users) THEN sa
    ELSE
      LET values == Get(users[i], "values", EmptyDict)
          has_pw == "initial_password" \in DOMAIN values
      IN
      IF has_pw /\ TemporaryRaises(values) THEN Raise("AttributeError")
      ELSE
        LET temp == has_pw /\ TemporaryOf(values)
            en == Get(values, "enabled", TRUE)
            user_info ==
              [username |-> Get(values, "username", "unknown"),
               email |-> Get(values, "email", ""),
               enabled |-> en,
               has_password |-> has_pw,
               temporary_password |-> temp,
               requires_password_change |-> FALSE]
        IN
        AnalyzeLoop(users, i + 1,
          [sa EXCEPT
             !.users_with_passwords = IF has_pw THEN @ + 1 ELSE @,
             !.temporary_passwords = IF temp THEN @ + 1 ELSE @,
             !.users_without_passwords = IF has_pw THEN @ ELSE @ + 1,
             !.enabled_users = IF en THEN @ + 1 ELSE @,
             !.disabled_users = IF en THEN @ ELSE @ + 1,
             !.user_details = Append(@, user_info)])

analyze_user_security(users) ==
    AnalyzeLoop(users, 1,
      [total_users |-> Len(users),
       users_with_passwords |-> 0,
       users_without_passwords |-> 0,
       temporary_passwords |-> 0,
       enabled_users |-> 0,
       disabled_users |-> 0,
       users_requiring_password_change |-> 0,
       user_details |-> <<>>])

(***************************************************************************)
(* generate_workspace_summary                                              *)
(***************************************************************************)
NoResourcesError == "No resources found or state not loaded"

RealmDetail(r) ==
    LET values == Get(r, "values", EmptyDict) IN
    [name |-> Get(values, "realm", "unknown"),
     enabled |-> Get(values, "enabled", TRUE),
     display_name |-> Get(values, "display_name", ""),
     address |-> Get(r, "address", "")]

ClientDetail(c) ==
    LET values == Get(c, "values", EmptyDict) IN
    [client_id |-> Get(values, "client_id", "unknown"),
     name |-> Get(values, "name", ""),
     enabled |-> Get(values, "enabled", TRUE),
     protocol |-> Get(values, "protocol", ""),
     address |-> Get(c, "address", "")]

IdpDetail(idp) ==
    LET values == Get(idp, "values", EmptyDict) IN
    [alias |-> Get(values, "alias", "unknown"),
     provider_id |-> Get(values, "provider_id", ""),
     enabled |-> Get(values, "enabled", TRUE),
     address |-> Get(idp, "address", "")]

\* the detailed_analysis dict: one key per non-empty drill-down category
DetailedAnalysis(categories, user_security) ==
    LET keys == {k \in {"users", "realms", "clients", "identity_providers"} :
                    categories[k] # <<>>}
        DetailKey(k) == IF k = "users" THEN "user_security" ELSE k
    IN
    [dk \in {DetailKey(k) : k \in keys} |->
        IF dk = "user_security" THEN user_security
        ELSE IF dk = "realms"
        THEN [i \in 1..Len(categories["realms"]) |-> RealmDetail(categories["realms"][i])]
        ELSE IF dk = "clients"
        THEN [i \in 1..Len(categories["clients"]) |-> ClientDetail(categories["clients"][i])]
        ELSE [i \in 1..Len(categories["identity_providers"]) |->
                 IdpDetail(categories["identity_providers"][i])]]

generate_workspace_summary(workspace) ==
    IF workspace.resources = <<>>
    THEN [name |-> workspace.name,
          path |-> workspace.path,
          has_state |-> workspace.has_state,
          resource_count |-> 0,
          categories |-> EmptyDict,
          error |-> NoResourcesError]
    ELSE
      LET categories == categorize_keycloak_resources(workspace.resources)
          user_security == analyze_user_security(categories["users"])
      IN
      IF categories["users"] # <<>> /\ IsRaise(user_security) THEN user_security
      ELSE
        [name |-> workspace.name,
         path |-> workspace.path,
         has_state |-> workspace.has_state,
         resource_count |-> Len(workspace.resources),
         categories |-> [k \in {c \in CategoryNames : categories[c] # <<>>} |->
                            Len(categories[k])],
         detailed_analysis |-> DetailedAnalysis(categories, user_security),
         outputs |-> workspace.outputs]

(***************************************************************************)
(* Inputs of the pure functions.                                           *)
(***************************************************************************)
TypeStrings ==
    {EmptyStr, Ty_keycloak_realm, Ty_keycloak_user, Ty_keycloak_realm_user_profile,
     Ty_keycloak_user_federation_mapper, Ty_keycloak_openid_client,
     Ty_keycloak_openid_client_scope, Ty_keycloak_role, Ty_keycloak_group_roles,
     Ty_keycloak_group, Ty_keycloak_oidc_identity_provider, Ty_keycloak_saml_idp,
     Ty_keycloak_authentication_execution, Ty_keycloak_required_flow,
     Ty_keycloak_default_scope, Ty_keycloak_generic_protocol_mapper,
     Ty_keycloak_identity_provider_mapper, Ty_null_resource}

BasicValues ==
    [username |-> "alice", realm |-> "main", client_id |-> "app", alias |-> "oidc",
     enabled |-> TRUE]

\* one resource of every type string, and one without a 'type' key
ClassifyResources ==
    {[type |-> t, address |-> "res.a", values |-> BasicValues] : t \in TypeStrings}
        \cup {[address |-> "res.a", values |-> BasicValues]}

\* the values under 'initial_password': a mapping (with or without
\* 'temporary'), JSON null, or a JSON list
PasswordValues ==
    {[kind |-> "object", fields |-> EmptyDict],
     [kind |-> "object", fields |-> [temporary |-> TRUE]],
     [kind |-> "object", fields |-> [temporary |-> FALSE]],
     [kind |-> "null"],
     [kind |-> "list"]}

UserValues ==
    LET Enabled == {EmptyDict} \cup {[enabled |-> b] : b \in BOOLEAN}
        Password == {EmptyDict} \cup {[initial_password |-> p] : p \in PasswordValues}
    IN {[username |-> "alice"] @@ e @@ p : e \in Enabled, p \in Password}

\* user resources, one of them without a 'values' key
UserResources ==
    {[type |-> Ty_keycloak_user, address |-> "keycloak_user.u", values |-> v] :
        v \in UserValues}
        \cup {[type |-> Ty_keycloak_user, address |-> "keycloak_user.u"]}

(***************************************************************************)
(* The environment of a program run.                                       *)
(***************************************************************************)
\* the directories under the scan root, in os.walk's top-down order, as
\* paths relative to the scan root
Dirs == <<".", "root">>

\* Path(args.path).resolve(): the scan root
BasePath == "/scan"

\* the directories the process can be started in: the scan root itself
\* (--path left at '.') or another one (--path given)
LaunchDirs == {"/scan", "/home"}

AbsPath(rel) == IF rel = "." THEN BasePath ELSE "/scan/root"

\* what a directory holds: some .tf file, and terraform.tfstate next to it
DirContents ==
    {[tf |-> FALSE, tfstate |-> FALSE], [tf |-> TRUE, tfstate |-> FALSE],
     [tf |-> TRUE, tfstate |-> TRUE]}

FilterChoices == {"users", "realms", "clients", "idp", "auth", "all"}

\* argparse's namespace; "None" stands for an option that was not given
ArgSpace ==
    [filter : FilterChoices \cup {"None"}, detailed : BOOLEAN,
     export : {"None", "report.json"}, no_color : BOOLEAN]

\* the resources a state snapshot of a run can hold
RunResources ==
    {[type |-> Ty_keycloak_user, address |-> "keycloak_user.alice",
      values |-> [username |-> "alice",
                  initial_password |-> [kind |-> "object",
                                        fields |-> [temporary |-> TRUE]]]]}

\* json.loads of `terraform show -json`
StateDatas ==
    {EmptyDict, [values |-> EmptyDict], [values |-> [root_module |-> EmptyDict]]}
        \cup {[values |-> [root_module |-> [resources |-> rs]]] :
                 rs \in BoundedSeq(RunResources, MaxSnapshot)}

\* json.loads of `terraform output -json`
OutputDatas == {[realm_id |-> "main"]}

\* the exceptions a subprocess.run + json.loads pair can end in
CommandFailures == {"FileNotFoundError", "CalledProcessError", "JSONDecodeError"}

\* what the two external commands do for one workspace; the outcome of a
\* command that is never reached is not drawn
Envs ==
    {[show |-> s, state_data |-> EmptyDict, output |-> "not_run", outputs |-> EmptyDict] :
        s \in CommandFailures}
    \cup {[show |-> "ok", state_data |-> d, output |-> o, outputs |-> EmptyDict] :
        d \in StateDatas, o \in CommandFailures}
    \cup {[show |-> "ok", state_data |-> d, output |-> "ok", outputs |-> j] :
        d \in StateDatas, j \in OutputDatas}

VARIABLES
    pc,             \* position of main()
    launch_dir,     \* the working directory the process was started in
    fs,             \* directory contents, by relative path
    args,           \* parsed command line
    RICH_AVAILABLE, \* whether `import rich` succeeded
    console,        \* analyzer.console
    cwd,            \* the process's current working directory
    workspaces,     \* analyzer.workspaces, in insertion order
    loads,          \* one record per finished load_terraform_state call
    loaded_count,   \* run_analysis's loaded_count
    summary_data,   \* analyzer.summary_data
    rendered,       \* the renderers output has gone through so far
    view,           \* the view main() displayed
    export_data,    \* the document export_to_json wrote
    exit_code,      \* the process's exit status
    fn_pc, fn_in, fn_out    \* a single call of a pure function

runvars ==
    <<pc, launch_dir, fs, args, RICH_AVAILABLE, console, cwd, workspaces, loads,
      loaded_count, summary_data, rendered, view, export_data, exit_code>>

fnvars == <<fn_pc, fn_in, fn_out>>

vars == <<runvars, fnvars>>

(***************************************************************************)
(* __init__, log                                                           *)
(***************************************************************************)
\* self.console = console or Console() if RICH_AVAILABLE else None, which
\* Python parses as (console or Console()) if RICH_AVAILABLE else None
InitConsole(console_arg, rich) == IF rich THEN "Console" ELSE "None"

\* main(): console = Console() only if RICH_AVAILABLE and not args.no_color
MainConsole(a, rich) == IF rich /\ ~a.no_color THEN "Console" ELSE "None"

\* the renderer self.log prints through
LogRenderer(c, rich) == IF c # "None" /\ rich THEN "rich" ELSE "plain"

\* the renderer of the code guarded by RICH_AVAILABLE alone (Progress, Table,
\* Panel, self.console.print)
RichRenderer(rich) == IF rich THEN "rich" ELSE "plain"

(***************************************************************************)
(* find_terraform_workspaces                                               *)
(***************************************************************************)
RECURSIVE WalkFrom(_, _, _)
WalkFrom(files, i, found) ==
    IF i > Len(Dirs) THEN found
    ELSE IF files[Dirs[i]].tf
    THEN WalkFrom(files, i + 1,
           Append(found,
                  [key |-> Dirs[i],
                   path |-> AbsPath(Dirs[i]),
                   name |-> IF Dirs[i] # "." THEN Dirs[i] ELSE "root",
                   has_state |-> files[Dirs[i]].tfstate,
                   resources |-> <<>>,
                   outputs |-> EmptyDict]))
    ELSE WalkFrom(files, i + 1, found)

find_terraform_workspaces(files) == WalkFrom(files, 1, <<>>)

(***************************************************************************)
(* load_terraform_state                                                    *)
(***************************************************************************)
\* workspace.resources after line 93
SnapshotResources(workspace, state_data) ==
    IF "values" \in DOMAIN state_data /\ "root_module" \in DOMAIN state_data["values"]
    THEN Get(state_data["values"]["root_module"], "resources", <<>>)
    ELSE workspace.resources

\* load_terraform_state, had it cleared has_state on a failed state command
load_terraform_state_marks_stateless(workspace, cwd_in, env) ==
    IF ~workspace.has_state
    THEN [workspace |-> workspace, ret |-> FALSE, cwd |-> cwd_in, logged |-> FALSE]
    ELSE IF env.show # "ok"
    THEN [workspace |-> [workspace EXCEPT !.has_state = FALSE],
          ret |-> FALSE, cwd |-> BasePath, logged |-> TRUE]
    ELSE
      LET loaded == [workspace EXCEPT
                       !.resources = SnapshotResources(workspace, env.state_data)]
      IN
      IF env.output = "ok"
      THEN [workspace |-> [loaded EXCEPT !.outputs = env.outputs],
            ret |-> TRUE, cwd |-> BasePath, logged |-> FALSE]
      ELSE IF env.output \in {"CalledProcessError", "JSONDecodeError"}
      THEN [workspace |-> [loaded EXCEPT !.outputs = EmptyDict],
            ret |-> TRUE, cwd |-> BasePath, logged |-> FALSE]
      ELSE [workspace |-> loaded, ret |-> FALSE, cwd |-> BasePath, logged |-> TRUE]

\* the call's effect: the workspace as left, the return value, the working
\* directory on return and whether the failure was logged
load_terraform_state(workspace, cwd_in, env) ==
    IF ~workspace.has_state
    THEN [workspace |-> workspace, ret |-> FALSE, cwd |-> cwd_in, logged |-> FALSE]
    ELSE IF env.show # "ok"
    THEN [workspace |-> workspace, ret |-> FALSE, cwd |-> BasePath, logged |-> TRUE]
    ELSE
      LET loaded == [workspace EXCEPT
                       !.resources = SnapshotResources(workspace, env.state_data)]
      IN
      IF env.output = "ok"
      THEN [workspace |-> [loaded EXCEPT !.outputs = env.outputs],
            ret |-> TRUE, cwd |-> BasePath, logged |-> FALSE]
      ELSE IF env.output \in {"CalledProcessError", "JSONDecodeError"}
      THEN [workspace |-> [loaded EXCEPT !.outputs = EmptyDict],
            ret |-> TRUE, cwd |-> BasePath, logged |-> FALSE]
      ELSE [workspace |-> loaded, ret |-> FALSE, cwd |-> BasePath, logged |-> TRUE]

(***************************************************************************)
(* display_detailed_analysis, export_to_json                               *)
(***************************************************************************)
\* the view the dispatch ends in; the class defines no _display_client_analysis,
\* _display_idp_analysis or _display_auth_analysis
display_detailed_analysis(filter_type) ==
    IF filter_type = "users" THEN "users"
    ELSE IF filter_type = "realms" THEN "realms"
    ELSE IF filter_type = "clients" THEN "AttributeError"
    ELSE IF filter_type = "idp" THEN "AttributeError"
    ELSE IF filter_type = "auth" THEN "AttributeError"
    ELSE "complete"

\* lines 500-505 of main()
MainView(a) ==
    IF a.detailed THEN display_detailed_analysis("all")
    ELSE IF a.filter # "None" THEN display_detailed_analysis(a.filter)
    ELSE "overview"

\* the renderer a view prints through
ViewRenderer(v, c, rich) ==
    IF v = "complete" THEN LogRenderer(c, rich) ELSE RichRenderer(rich)

export_to_json(summaries) ==
    [base_path |-> BasePath,
     analysis_summary |->
        [total_workspaces |-> Cardinality(DOMAIN summaries),
         total_resources |->
             SumOver([n \in DOMAIN summaries |-> summaries[n].resource_count],
                     DOMAIN summaries),
         workspaces_with_state |->
             Cardinality({n \in DOMAIN summaries : summaries[n].has_state})],
     workspaces |-> summaries]

(***************************************************************************)
(* run_analysis and main(), step by step.                                  *)
(***************************************************************************)
\* run_analysis's last loop: summary_data[workspace.name] = summary, in
\* workspace order; an exception of generate_workspace_summary ends it
RECURSIVE SummarizeLoop(_, _, _)
SummarizeLoop(wss, i, summaries) ==
    IF i > Len(wss) THEN summaries
    ELSE LET summary == generate_workspace_summary(wss[i]) IN
         IF IsRaise(summary) THEN summary
         ELSE SummarizeLoop(wss, i + 1, (wss[i].name :> summary) @@ summaries)

\* no call of a pure function is in progress
FnIdle == fn_pc = "idle" /\ fn_in = <<>> /\ fn_out = <<>>

\* the process as started: module import done, main() not yet entered
Init ==
    /\ pc = "main"
    /\ launch_dir \in LaunchDirs
    /\ cwd = launch_dir
    /\ fs \in [{Dirs[i] : i \in 1..Len(Dirs)} -> DirContents]
    /\ args \in ArgSpace
    /\ RICH_AVAILABLE \in BOOLEAN
    /\ console = "None"
    /\ workspaces = <<>>
    /\ loads = <<>>
    /\ loaded_count = 0
    /\ summary_data = EmptyDict
    /\ rendered = IF RICH_AVAILABLE THEN {} ELSE {"plain"}
    /\ view = "none"
    /\ export_data = EmptyDict
    /\ exit_code = -1
    /\ FnIdle

\* main(): the console choice and the analyzer's construction
Construct ==
    /\ pc = "main"
    /\ console' = InitConsole(MainConsole(args, RICH_AVAILABLE), RICH_AVAILABLE)
    /\ pc' = "run_analysis"
    /\ UNCHANGED <<launch_dir, fs, args, RICH_AVAILABLE, cwd, workspaces, loads,
                   loaded_count, summary_data, rendered, view, export_data,
                   exit_code, fnvars>>

\* run_analysis up to the empty check; main() exits with 1 on False
FindWorkspaces ==
    /\ pc = "run_analysis"
    /\ workspaces' = find_terraform_workspaces(fs)
    /\ rendered' = rendered \cup {LogRenderer(console, RICH_AVAILABLE)}
    /\ IF workspaces' = <<>>
       THEN pc' = "exited" /\ exit_code' = 1
       ELSE pc' = "load" /\ UNCHANGED exit_code
    /\ UNCHANGED <<launch_dir, fs, args, RICH_AVAILABLE, console, cwd, loads,
                   loaded_count, summary_data, view, export_data, fnvars>>

\* one iteration of the loading loop, and the log line after the last one
LoadState ==
    /\ pc = "load"
    /\ \E env \in Envs :
         LET i == Len(loads) + 1
             w == workspaces[i]
             r == load_terraform_state(w, cwd, env)
             ran_show == w.has_state
             ran_output == w.has_state /\ env.show = "ok"
         IN
         /\ workspaces' = [workspaces EXCEPT ![i] = r.workspace]
         /\ cwd' = r.cwd
         /\ loads' = Append(loads,
              [key |-> w.key,
               cwd_before |-> cwd,
               cwd_after |-> r.cwd,
               show |-> IF ran_show THEN env.show ELSE "not_invoked",
               output |-> IF ran_output THEN env.output ELSE "not_invoked",
               snapshot |-> IF ran_output
                            THEN SnapshotResources(w, env.state_data) ELSE <<>>,
               ret |-> r.ret])
         /\ loaded_count' = IF r.ret THEN loaded_count + 1 ELSE loaded_count
         /\ rendered' = rendered \cup {RichRenderer(RICH_AVAILABLE)}
              \cup (IF r.logged \/ i = Len(workspaces)
                    THEN {LogRenderer(console, RICH_AVAILABLE)} ELSE {})
         /\ pc' = IF i = Len(workspaces) THEN "summarize" ELSE "load"
    /\ UNCHANGED <<launch_dir, fs, args, RICH_AVAILABLE, console, summary_data,
                   view, export_data, exit_code, fnvars>>

\* the summary loop; an uncaught exception ends the process with status 1
Summarize ==
    /\ pc = "summarize"
    /\ LET r == SummarizeLoop(workspaces, 1, summary_data) IN
       IF IsRaise(r)
       THEN pc' = "exited" /\ exit_code' = 1 /\ UNCHANGED summary_data
       ELSE pc' = "display" /\ summary_data' = r /\ UNCHANGED exit_code
    /\ UNCHANGED <<launch_dir, fs, args, RICH_AVAILABLE, console, cwd, workspaces,
                   loads, loaded_count, rendered, view, export_data, fnvars>>

\* main()'s view selection; an uncaught AttributeError ends the process with
\* status 1
Display ==
    /\ pc = "display"
    /\ view' = MainView(args)
    /\ IF view' = "AttributeError"
       THEN pc' = "exited" /\ exit_code' = 1 /\ UNCHANGED rendered
       ELSE /\ pc' = "export"
            /\ rendered' = rendered \cup {ViewRenderer(view', console, RICH_AVAILABLE)}
            /\ UNCHANGED exit_code
    /\ UNCHANGED <<launch_dir, fs, args, RICH_AVAILABLE, console, cwd, workspaces,
                   loads, loaded_count, summary_data, export_data, fnvars>>

\* the optional export, the closing print and the normal end of main()
Export ==
    /\ pc = "export"
    /\ IF args.export # "None"
       THEN /\ export_data' = export_to_json(summary_data)
            /\ rendered' = rendered \cup {LogRenderer(console, RICH_AVAILABLE), "plain"}
       ELSE /\ UNCHANGED export_data
            /\ rendered' = rendered \cup {"plain"}
    /\ pc' = "exited"
    /\ exit_code' = 0
    /\ UNCHANGED <<launch_dir, fs, args, RICH_AVAILABLE, console, cwd, workspaces,
                   loads, loaded_count, summary_data, view, fnvars>>

Next ==
    \/ Construct
    \/ FindWorkspaces
    \/ LoadState
    \/ Summarize
    \/ Display
    \/ Export

Spec == Init /\ [][Next]_vars

\* the program is not running: only a pure function is being applied
RunIdle ==
    /\ pc = "idle"
    /\ launch_dir = BasePath
    /\ cwd = BasePath
    /\ fs = [d \in {Dirs[i] : i \in 1..Len(Dirs)} |-> [tf |-> FALSE, tfstate |-> FALSE]]
    /\ args = [filter |-> "None", detailed |-> FALSE, export |-> "None", no_color |-> FALSE]
    /\ RICH_AVAILABLE = FALSE
    /\ console = "None"
    /\ workspaces = <<>>
    /\ loads = <<>>
    /\ loaded_count = 0
    /\ summary_data = EmptyDict
    /\ rendered = {}
    /\ view = "none"
    /\ export_data = EmptyDict
    /\ exit_code = -1

(***************************************************************************)
(* The classifier and the summary built on it, applied to every resource   *)
(* list up to MaxLen.                                                      *)
(***************************************************************************)
ClassifyWorkspace(resources) ==
    [path |-> "/scan", name |-> "root", has_state |-> TRUE,
     resources |-> resources, outputs |-> EmptyDict]

InitClassify ==
    /\ fn_pc = "call"
    /\ fn_in \in BoundedSeq(ClassifyResources, MaxLen)
    /\ fn_out = <<>>
    /\ RunIdle

Categorize ==
    /\ fn_pc = "call"
    /\ fn_pc' = "returned"
    /\ fn_out' = [categories |-> categorize_keycloak_resources(fn_in),
                  summary |-> generate_workspace_summary(ClassifyWorkspace(fn_in))]
    /\ UNCHANGED <<fn_in, runvars>>

NextClassify == Categorize

SpecClassify == InitClassify /\ [][NextClassify]_vars

(***************************************************************************)
(* analyze_user_security applied to every user list up to MaxLen.          *)
(***************************************************************************)
InitUsers ==
    /\ fn_pc = "call"
    /\ fn_in \in BoundedSeq(UserResources, MaxLen)
    /\ fn_out = <<>>
    /\ RunIdle

AnalyzeUsers ==
    /\ fn_pc = "call"
    /\ fn_pc' = "returned"
    /\ fn_out' = analyze_user_security(fn_in)
    /\ UNCHANGED <<fn_in, runvars>>

NextUsers == AnalyzeUsers

SpecUsers == InitUsers /\ [][NextUsers]_vars

(***************************************************************************)
(* Properties.                                                             *)
(***************************************************************************)
Range(s) == {s[i] : i \in DOMAIN s}

\* how many times r occurs in the sequence s
Count(s, r) == Cardinality({i \in DOMAIN s : s[i] = r})

\* the documented containment test of each category
Rule(c, t) ==
    CASE c = "realms" -> Contains(KW_realm, t) /\ t # Ty_keycloak_user
      [] c = "users" -> Contains(KW_user, t)
      [] c = "clients" -> Contains(KW_client, t)
      [] c = "roles" -> Contains(KW_role, t)
      [] c = "groups" -> Contains(KW_group, t)
      [] c = "identity_providers" -> Contains(KW_identity_provider, t) \/ Contains(KW_idp, t)
      [] c = "authentication_flows" -> Contains(KW_authentication, t) \/ Contains(KW_flow, t)
      [] c = "scopes" -> Contains(KW_scope, t)
      [] c = "mappers" -> Contains(KW_mapper, t)
      [] c = "other" -> TRUE

\* the first category, in the documented priority order, whose test matches
FirstMatch(t) ==
    Categories[CHOOSE i \in 1..Len(Categories) :
                  /\ Rule(Categories[i], t)
                  /\ \A j \in 1..(i - 1) : ~Rule(Categories[j], t)]

\* C1: the classifier's ten categories are pairwise disjoint and together hold
\* every input resource exactly as often as the input does, and the category
\* counts of the summary built from the list sum to its resource_count, which
\* is the length of the list.
C1_CategoriesPartitionResources ==
    fn_pc = "returned" =>
      LET cats == fn_out.categories
          summary == fn_out.summary
      IN
      /\ DOMAIN cats = CategoryNames
      /\ \A c \in CategoryNames : \A d \in CategoryNames \ {c} :
            Range(cats[c]) \cap Range(cats[d]) = {}
      /\ \A r \in Range(fn_in) \cup UNION {Range(cats[c]) : c \in CategoryNames} :
            SumOver([c \in CategoryNames |-> Count(cats[c], r)], CategoryNames)
                = Count(fn_in, r)
      /\ SumOver([c \in CategoryNames |-> Len(cats[c])], CategoryNames) = Len(fn_in)
      /\ summary.resource_count = Len(fn_in)
      /\ SumOver(summary.categories, DOMAIN summary.categories) = summary.resource_count

\* C1 witness: a two-resource list split over two categories was summarized
C1_Witness ==
    /\ fn_pc = "returned"
    /\ "summary" \in DOMAIN fn_out
    /\ Len(fn_in) = 2
    /\ fn_out.summary.resource_count = 2
    /\ Cardinality(DOMAIN fn_out.summary.categories) = 2
    /\ Len(fn_out.categories["other"]) = 1

\* C2: every resource lands in the first category, in the order realms, users,
\* clients, roles, groups, identity_providers, authentication_flows, scopes,
\* mappers, other, whose test its type passes; a type with both 'user' and
\* 'mapper' is never in mappers (and is in users unless the realm test takes
\* it first); a missing or empty type lands in other.
C2_FirstMatchPriority ==
    fn_pc = "returned" =>
      \A i \in DOMAIN fn_in :
        LET r == fn_in[i]
            t == IF "type" \in DOMAIN r THEN r["type"] ELSE EmptyStr
            cats == fn_out.categories
        IN
        /\ r \in Range(cats[FirstMatch(t)])
        /\ (Contains(KW_user, t) /\ Contains(KW_mapper, t)) =>
              /\ r \notin Range(cats["mappers"])
              /\ ~Rule("realms", t) => r \in Range(cats["users"])
        /\ t = Ty_keycloak_user_federation_mapper => r \in Range(cats["users"])
        /\ t = EmptyStr => r \in Range(cats["other"])

\* C2 witness: a user federation mapper was classified as a user and a
\* resource without a type as other
C2_Witness ==
    /\ fn_pc = "returned"
    /\ "categories" \in DOMAIN fn_out
    /\ \E r \in Range(fn_out.categories["users"]) :
          r["type"] = Ty_keycloak_user_federation_mapper
    /\ \E r \in Range(fn_out.categories["other"]) : "type" \notin DOMAIN r

\* the values of the i-th user, {} when the resource has none
UserValuesAt(i) == IF "values" \in DOMAIN fn_in[i] THEN fn_in[i].values ELSE EmptyDict

HasPasswordAt(i) == "initial_password" \in DOMAIN UserValuesAt(i)

\* initial_password.temporary is true
TemporaryAt(i) ==
    /\ HasPasswordAt(i)
    /\ "temporary" \in DOMAIN UserValuesAt(i).initial_password.fields
    /\ UserValuesAt(i).initial_password.fields.temporary

\* enabled is true or missing
EnabledAt(i) == "enabled" \notin DOMAIN UserValuesAt(i) \/ UserValuesAt(i).enabled

\* every initial_password of the input is a mapping
WellFormedUsers ==
    \A i \in DOMAIN fn_in : HasPasswordAt(i) => UserValuesAt(i).initial_password.kind = "object"

RunAnalysisReturnedTrue ==
    pc \in {"display", "export"} \/ (pc = "exited" /\ view # "none")

\* export_to_json has written its document
Exported == pc = "exited" /\ "analysis_summary" \in DOMAIN export_data

\* the state command of the i-th load was run and failed
StateCommandFailed(i) == loads[i].show \in CommandFailures

\* no later workspace has the i-th workspace's name
LastWithName(i) ==
    \A j \in DOMAIN workspaces : j > i => workspaces[j].name # workspaces[i].name

\* C3: on return from every load_terraform_state call the working directory is
\* the one that was current on entry.
C3_CwdRestored ==
    \A i \in DOMAIN loads : loads[i].cwd_after = loads[i].cwd_before

\* C4: after run_analysis, a workspace without local state or whose load
\* returned False has no resources, is left out of loaded_count, and its entry
\* of summary_data is the marker record: the error text, resource_count 0 and
\* no category counts.
C4_FailedLoadIsEmptyMarker ==
    RunAnalysisReturnedTrue =>
      /\ loaded_count = Cardinality({j \in DOMAIN loads : loads[j].ret})
      /\ \A i \in DOMAIN workspaces :
           (~workspaces[i].has_state \/ ~loads[i].ret) =>
             /\ workspaces[i].resources = <<>>
             /\ workspaces[i].name \in DOMAIN summary_data
             /\ LET s == summary_data[workspaces[i].name] IN
                /\ "error" \in DOMAIN s
                /\ s.error = NoResourcesError
                /\ s.resource_count = 0
                /\ DOMAIN s.categories = {}

\* C5: when the state command succeeds and the outputs command fails in any of
\* the three ways, the load returns True, the workspace keeps the snapshot's
\* resources and its outputs are {}.
C5_OutputFailureNonFatal ==
    \A i \in DOMAIN loads :
      (loads[i].show = "ok" /\ loads[i].output \in CommandFailures) =>
        /\ loads[i].ret
        /\ workspaces[i].resources = loads[i].snapshot
        /\ DOMAIN workspaces[i].outputs = {}

\* C6 as claimed: a workspace whose state command failed has has_state false in
\* its summary, and workspaces_with_state counts the workspaces whose state
\* was usable.
C6_FailedLoadMarkedStateless ==
    RunAnalysisReturnedTrue =>
      /\ \A i \in DOMAIN workspaces :
           StateCommandFailed(i) => ~summary_data[workspaces[i].name].has_state
      /\ Exported =>
           export_data.analysis_summary.workspaces_with_state
             = Cardinality({j \in DOMAIN loads : loads[j].show = "ok"})

\* C6 as amended: a failed state command leaves has_state true on the
\* workspace; the summary entry under its name carries has_state true unless a
\* later workspace of the same name replaced it; and workspaces_with_state
\* counts the summary entries whose workspace has a local state file, whether
\* or not its state could be loaded.
C6_FailedLoadKeepsHasState ==
    /\ \A i \in DOMAIN loads : StateCommandFailed(i) => workspaces[i].has_state
    /\ RunAnalysisReturnedTrue =>
         \A i \in DOMAIN workspaces :
           (StateCommandFailed(i) /\ LastWithName(i)) =>
              summary_data[workspaces[i].name].has_state
    /\ Exported =>
         export_data.analysis_summary.workspaces_with_state
           = Cardinality({workspaces[i].name : i \in
                 {j \in DOMAIN workspaces : LastWithName(j) /\ fs[workspaces[j].key].tfstate}})

\* C6 witness: an export counted a workspace whose state command had failed
C6_Witness ==
    /\ Exported
    /\ export_data.analysis_summary.workspaces_with_state >= 1
    /\ \A i \in DOMAIN workspaces : workspaces[i].has_state => StateCommandFailed(i)
    /\ \E i \in DOMAIN workspaces :
          StateCommandFailed(i) /\ summary_data[workspaces[i].name].has_state

\* C7: the process exits with 1 if no workspace was discovered and with 0
\* otherwise.
C7_ExitCode ==
    pc = "exited" => exit_code = (IF workspaces = <<>> THEN 1 ELSE 0)

\* the view the options are documented to select
ExpectedView(a) ==
    IF a.detailed THEN "complete"
    ELSE IF a.filter = "None" THEN "overview"
    ELSE IF a.filter \in {"auth", "all"} THEN "complete"
    ELSE a.filter

\* C8: once main() has selected a view, it is the documented one: complete with
\* --detailed, the category's own view for --filter users, realms, clients and
\* idp, complete for auth and all, the overview with neither option.
C8_ViewSelection ==
    view # "none" => view = ExpectedView(args)

\* C9: with --no-color nothing is printed through the rich renderer.
C9_NoColorPlain ==
    args.no_color => "rich" \notin rendered

\* C11: analyze_user_security and generate_workspace_summary return, without
\* raising, on every user list, whatever the values hold under a key: a
\* missing key, or an initial_password that is null or not a mapping.
C11_SummaryNeverRaises ==
    fn_pc = "returned" =>
      /\ ~IsRaise(fn_out)
      /\ ~IsRaise(generate_workspace_summary(ClassifyWorkspace(fn_in)))

\* C12: once run_analysis has returned True, summary_data has one entry per
\* discovered workspace, no two workspaces share a summary key, and an
\* export's total_workspaces is the number of workspaces discovered.
C12_OneSummaryPerWorkspace ==
    RunAnalysisReturnedTrue =>
      /\ Cardinality(DOMAIN summary_data) = Len(workspaces)
      /\ \A i \in DOMAIN workspaces : \A j \in DOMAIN workspaces :
            i # j => workspaces[i].name # workspaces[j].name
      /\ Exported =>
            export_data.analysis_summary.total_workspaces = Len(workspaces)
====
